---------------------------- MODULE Spec2Model ----------------------------
(***************************************************************************)
(* YT-Keyword-Analyzer (src/index.js): the per-keyword scorer, the batch   *)
(* analyzer, the insight generator and the JSON-RPC router in front of     *)
(* them, as a state machine.                                               *)
(*                                                                         *)
(* Conventions.                                                            *)
(*  - A JavaScript string that the code inspects character by character    *)
(*    (a keyword, a pattern) is a sequence of one-character strings.       *)
(*    Strings the code only compares as a whole (method names, categories, *)
(*    messages, ids) are TLA+ strings.                                     *)
(*  - An optional property is a sequence: << >> when the property is       *)
(*    undefined, <<v>> when it holds v.                                    *)
(*  - relevance is a number in [0,1]; it is carried in fortieths           *)
(*    (20 is 0.5, 40 is 1.0, 1 is 0.025), so that every weighted sum of    *)
(*    the scorer is an exact multiple of 1/40 and Math.round is exact.     *)
(*  - Math.random() is carried in tenths.                                  *)
(***************************************************************************)
EXTENDS Integers, Sequences, FiniteSets, TLC

VARIABLES
    inbox,      \* the message travelling from the client to the server
    request,    \* the message the last run of the message handler was given
    analyzed,   \* analyzedKeywords as keywords.map built it, before the sort
    response,   \* the object the handler passed to JSON.stringify
    sent,       \* what ws.send put on the wire
    scoreInput, \* scorer harness: the keywordData under test
    scored,     \* scorer harness: what analyzeKeyword returned for it
    rescored    \* scorer harness: what a second call returned for it

vars == <<inbox, request, analyzed, response, sent, scoreInput, scored, rescored>>

---------------------------------------------------------------------------
(* Bounds of the model *)

\* longest keyword, in words, the scorer harness is given
MaxWords == 4
\* longest keywords array a tools/call carries
MaxBatch == 4

---------------------------------------------------------------------------
(* JavaScript values *)

Absent == << >>
Some(v) == <<v>>

Max(a, b) == IF a >= b THEN a ELSE b
Min(a, b) == IF a <= b THEN a ELSE b

\* String.prototype.toLowerCase, on the letters the model's keywords use
LowerChar(c) ==
    CASE c = "A" -> "a" [] c = "B" -> "b" [] c = "C" -> "c" [] c = "G" -> "g"
      [] c = "H" -> "h" [] c = "S" -> "s" [] c = "T" -> "t" [] c = "V" -> "v"
      [] OTHER -> c

toLowerCase(s) == [i \in 1..Len(s) |-> LowerChar(s[i])]

\* String.prototype.includes: p occurs in s as a contiguous substring
includes(s, p) ==
    \E i \in 1..(Len(s) - Len(p) + 1) :
        \A j \in 1..Len(p) : s[i + j - 1] = p[j]

\* s.split(' ').length: one more than the number of U+0020 characters in s
SplitSpaceLength(s) == 1 + Cardinality({i \in 1..Len(s) : s[i] = " "})

\* /202[4-9]/.test(s)
YearRegexTest(s) ==
    \E i \in 1..(Len(s) - 3) :
        /\ s[i] = "2" /\ s[i + 1] = "0" /\ s[i + 2] = "2"
        /\ s[i + 3] \in {"4", "5", "6", "7", "8", "9"}

---------------------------------------------------------------------------
(* The pattern tables of the constructor *)

highCompetition ==
    << <<"t","u","t","o","r","i","a","l">>,
       <<"h","o","w"," ","t","o">>,
       <<"b","e","s","t">>,
       <<"r","e","v","i","e","w">>,
       <<"t","o","p"," ","1","0">>,
       <<"g","u","i","d","e">> >>

mediumCompetition ==
    << <<"t","i","p","s">>,
       <<"t","r","i","c","k","s">>,
       <<"e","x","p","l","a","i","n","e","d">>,
       <<"w","a","l","k","t","h","r","o","u","g","h">>,
       <<"d","e","m","o">> >>

lowCompetition ==
    << <<"m","i","s","t","a","k","e","s">>,
       <<"u","n","d","e","r","r","a","t","e","d">>,
       <<"h","i","d","d","e","n">>,
       <<"s","e","c","r","e","t">>,
       <<"a","d","v","a","n","c","e","d">> >>

trendingTopics ==
    << <<"a","i">>,
       <<"c","h","a","t","g","p","t">>,
       <<"a","u","t","o","m","a","t","i","o","n">>,
       <<"2","0","2","5">>,
       <<"2","0","2","4">>,
       <<"s","h","o","r","t","s">>,
       <<"v","i","r","a","l">> >>

classic == <<"c","l","a","s","s","i","c">>
traditional == <<"t","r","a","d","i","t","i","o","n","a","l">>

---------------------------------------------------------------------------
(* analyzeKeyword *)

\* for (const pattern of patterns) { if (keyword.includes(pattern)) { score += delta; break; } }
\* scanned from pattern i on
RECURSIVE ScanBucket(_, _, _, _, _)
ScanBucket(keyword, patterns, i, score, delta) ==
    IF i > Len(patterns) THEN score
    ELSE IF includes(keyword, patterns[i]) THEN score + delta
    ELSE ScanBucket(keyword, patterns, i + 1, score, delta)

\* Math.max(10, Math.min(95, competitionScore))
ClampTypo(x) == Max(100, Min(95, x))

Clamp(x) == Max(10, Min(95, x))

\* lines 231-261, on the lower-cased keyword
CompetitionScore(keyword) ==
    LET afterHigh   == ScanBucket(keyword, highCompetition, 1, 50, 15)
        afterMedium == ScanBucket(keyword, mediumCompetition, 1, afterHigh, 5)
        afterLow    == ScanBucket(keyword, lowCompetition, 1, afterMedium, 0 - 20)
        afterTail   == IF SplitSpaceLength(keyword) >= 4
                       THEN afterLow - 15 ELSE afterLow
    IN  Clamp(afterTail)

\* lines 264-278: the switch on inputData.searchVolume, then the trending boost
VolumeScore(keyword, searchVolume) ==
    LET base == CASE searchVolume = Some("high")   -> 85
                  [] searchVolume = Some("medium") -> 60
                  [] searchVolume = Some("low")    -> 35
                  [] OTHER                         -> 50
    IN  IF \E i \in 1..Len(trendingTopics) : includes(keyword, trendingTopics[i])
        THEN Min(100, base + 15)
        ELSE base

\* whether calculateTrendDirection returns before it reaches Math.random()
TrendIsFixed(keyword) ==
    \/ \E i \in 1..Len(trendingTopics) : includes(keyword, trendingTopics[i])
    \/ YearRegexTest(keyword)
    \/ includes(keyword, classic)
    \/ includes(keyword, traditional)

\* rand: the value Math.random() returns, in tenths
calculateTrendDirectionNoStable(keyword, rand) ==
    IF (\E i \in 1..Len(trendingTopics) : includes(keyword, trendingTopics[i]))
       \/ YearRegexTest(keyword)
    THEN "rising"
    ELSE IF rand > 7 THEN "rising"
    ELSE IF rand > 3 THEN "stable"
    ELSE "declining"

calculateTrendDirection(keyword, rand) ==
    LET trendingUp == \E i \in 1..Len(trendingTopics) : includes(keyword, trendingTopics[i])
        hasYear    == YearRegexTest(keyword)
    IN  IF trendingUp \/ hasYear THEN "rising"
        ELSE IF includes(keyword, classic) \/ includes(keyword, traditional) THEN "stable"
        ELSE IF rand > 7 THEN "rising"
        ELSE IF rand > 3 THEN "stable"
        ELSE "declining"

\* inputData.relevance || 0.5, in fortieths: undefined and 0 are both falsy
RelevanceOrDefault(relevance) ==
    IF relevance = Absent \/ relevance[1] = 0 THEN 20 ELSE relevance[1]

\* Math.round of a non-negative number given in fortieths: halves round up
RoundFortieths(n) == (n + 20) \div 40

\* lines 285-289; in fortieths 0.4 is 16 and 20 stays 20
OpportunityScore(volumeScore, competitionScore, relevance) ==
    RoundFortieths(volumeScore * 16
                   + (100 - competitionScore) * 16
                   + RelevanceOrDefault(relevance) * 20)

\* inputData.category || 'general': undefined and '' are both falsy
CategoryOrDefault(category) ==
    IF category = Absent \/ category[1] = "" THEN "general" ELSE category[1]

getKeywordRecommendation(score, category) ==
    IF score >= 70
    THEN IF category = "primary"
         THEN "Highly recommended for title"
         ELSE "Strong candidate for description/tags"
    ELSE IF score >= 50
    THEN "Good supporting keyword for description"
    ELSE "Consider for long-form content or tags only"

Level(score) ==
    IF score >= 70 THEN "high" ELSE IF score >= 40 THEN "medium" ELSE "low"

\* lines 292-295
Difficulty(competitionScore) ==
    IF competitionScore >= 70 THEN "hard"
    ELSE IF competitionScore >= 40 THEN "medium"
    ELSE "easy"

\* line 228: a bare string is normalised to { keyword: keywordData }
InputData(keywordData) ==
    IF keywordData.format = "string"
    THEN [keyword |-> keywordData.keyword, category |-> Absent,
          searchVolume |-> Absent, relevance |-> Absent]
    ELSE [keyword |-> keywordData.keyword, category |-> keywordData.category,
          searchVolume |-> keywordData.searchVolume,
          relevance |-> keywordData.relevance]

\* analyzeKeyword(keywordData, _niche), with the value Math.random() returns
\* should calculateTrendDirection reach it
analyzeKeyword(keywordData, rand) ==
    LET keyword          == toLowerCase(keywordData.keyword)
        inputData        == InputData(keywordData)
        competitionScore == CompetitionScore(keyword)
        volumeScore      == VolumeScore(keyword, inputData.searchVolume)
        trendDirection   == calculateTrendDirection(keyword, rand)
        opportunityScore == OpportunityScore(volumeScore, competitionScore,
                                             inputData.relevance)
    IN  [keyword |-> inputData.keyword,
         category |-> CategoryOrDefault(inputData.category),
         analysis |-> [competitionScore |-> competitionScore,
                       competitionLevel |-> Level(competitionScore),
                       volumeScore |-> volumeScore,
                       volumeLevel |-> Level(volumeScore),
                       trendDirection |-> trendDirection,
                       difficulty |-> Difficulty(competitionScore)],
         relevance |-> RelevanceOrDefault(inputData.relevance),
         opportunityScore |-> opportunityScore,
         opportunityRating |-> IF opportunityScore >= 70 THEN "excellent"
                               ELSE IF opportunityScore >= 50 THEN "good"
                               ELSE "low",
         recommendation |-> getKeywordRecommendation(
                                opportunityScore,
                                CategoryOrDefault(inputData.category))]

---------------------------------------------------------------------------
(* generateInsights and analyzeKeywords *)

\* a JavaScript number that may be NaN, and JSON's null
Num(n) == [type |-> "number", nan |-> FALSE, value |-> n]
NaN == [type |-> "number", nan |-> TRUE, value |-> 0]
JsonNull == [type |-> "null", nan |-> FALSE, value |-> 0]

\* array.slice(0, n)
Slice(s, n) == SubSeq(s, 1, Min(n, Len(s)))

\* array.slice(n): what a slice with the wrong end of the array would keep
SliceLast(s, n) == SubSeq(s, Max(1, Len(s) - n + 1), Len(s))

\* array.map(k => k.keyword)
KeywordsOf(s) == [i \in 1..Len(s) |-> s[i].keyword]

\* Where Array.prototype.sort's stable merge puts x in the already sorted
\* prefix, under the comparator (a, b) => b.opportunityScore - a.opportunityScore:
\* after every element that does not compare greater than x
RECURSIVE InsertUnstable(_, _)
InsertUnstable(sorted, x) ==
    IF sorted = << >> THEN <<x>>
    ELSE IF Head(sorted).opportunityScore > x.opportunityScore
         THEN <<Head(sorted)>> \o InsertUnstable(Tail(sorted), x)
         ELSE <<x>> \o sorted

RECURSIVE Insert(_, _)
Insert(sorted, x) ==
    IF sorted = << >> THEN <<x>>
    ELSE IF Head(sorted).opportunityScore >= x.opportunityScore
         THEN <<Head(sorted)>> \o Insert(Tail(sorted), x)
         ELSE <<x>> \o sorted

\* analyzedKeywords.sort((a, b) => b.opportunityScore - a.opportunityScore)
RECURSIVE SortByOpportunity(_)
SortByOpportunity(s) ==
    IF s = << >> THEN << >>
    ELSE Insert(SortByOpportunity(SubSeq(s, 1, Len(s) - 1)), s[Len(s)])

\* the three filters of lines 185-187
IsTop(k) == k.opportunityScore >= 70

IsGoodOverlap(k) == k.opportunityScore >= 50 /\ k.opportunityScore <= 70

IsGood(k) == k.opportunityScore >= 50 /\ k.opportunityScore < 70

IsLow(k) == k.opportunityScore < 50

IsRising(k) == k.analysis.trendDirection = "rising"
IsEasyWin(k) == k.analysis.difficulty = "easy" /\ k.analysis.volumeScore >= 40
IsLongTail(k) == k.category = "long-tail"

\* if (niche): undefined and '' are falsy
Truthy(option) == option # Absent /\ option[1] # ""

\* An insight: its type, and the count, keywords and niche its message and
\* keywords properties are built from
Insight(type, count, keywords, niche) ==
    [type |-> type, count |-> count, keywords |-> keywords, niche |-> niche]

generateInsightsSliceLast(analyzedKeywords, concept, niche) ==
    LET risingKeywords == SelectSeq(analyzedKeywords, IsRising)
        easyWins       == SelectSeq(analyzedKeywords, IsEasyWin)
    IN  (IF \A i \in 1..Len(analyzedKeywords) : analyzedKeywords[i].category # "long-tail"
         THEN <<Insight("gap", Absent, Absent, Absent)>> ELSE << >>)
        \o (IF Len(risingKeywords) > 0
            THEN <<Insight("opportunity", Some(Len(risingKeywords)),
                           Some(KeywordsOf(SliceLast(risingKeywords, 3))), Absent)>>
            ELSE << >>)
        \o (IF Len(easyWins) > 0
            THEN <<Insight("quick-win", Some(Len(easyWins)),
                           Some(KeywordsOf(SliceLast(easyWins, 3))), Absent)>>
            ELSE << >>)
        \o (IF Truthy(niche)
            THEN <<Insight("niche", Absent, Absent, niche)>> ELSE << >>)

generateInsights(analyzedKeywords, concept, niche) ==
    LET risingKeywords == SelectSeq(analyzedKeywords, IsRising)
        easyWins       == SelectSeq(analyzedKeywords, IsEasyWin)
    IN  (IF \A i \in 1..Len(analyzedKeywords) : analyzedKeywords[i].category # "long-tail"
         THEN <<Insight("gap", Absent, Absent, Absent)>> ELSE << >>)
        \o (IF Len(risingKeywords) > 0
            THEN <<Insight("opportunity", Some(Len(risingKeywords)),
                           Some(KeywordsOf(Slice(risingKeywords, 3))), Absent)>>
            ELSE << >>)
        \o (IF Len(easyWins) > 0
            THEN <<Insight("quick-win", Some(Len(easyWins)),
                           Some(KeywordsOf(Slice(easyWins, 3))), Absent)>>
            ELSE << >>)
        \o (IF Truthy(niche)
            THEN <<Insight("niche", Absent, Absent, niche)>> ELSE << >>)

RECURSIVE SumOpportunity(_)
SumOpportunity(s) ==
    IF s = << >> THEN 0 ELSE Head(s).opportunityScore + SumOpportunity(Tail(s))

\* Math.round(reduce(...) / analyzedKeywords.length): 0 / 0 is NaN, and
\* Math.round(NaN) is NaN
AverageOpportunityScore(analyzedKeywords) ==
    LET n == Len(analyzedKeywords)
    IN  IF n = 0 THEN NaN
        ELSE Num((2 * SumOpportunity(analyzedKeywords) + n) \div (2 * n))

\* value || fallback for a string property
StringOr(option, fallback) == IF Truthy(option) THEN option[1] ELSE fallback

\* lines 182-222: the report built from analyzedKeywords as map returned it
Report(args, mapped) ==
    LET analyzedKeywords    == SortByOpportunity(mapped)
        topKeywords         == SelectSeq(analyzedKeywords, IsTop)
        goodKeywords        == SelectSeq(analyzedKeywords, IsGood)
        lowPriorityKeywords == SelectSeq(analyzedKeywords, IsLow)
        insights            == generateInsights(analyzedKeywords, args.concept, args.niche)
        recommended         == [primary |-> Slice(topKeywords, 3),
                                secondary |-> Slice(goodKeywords, 5),
                                longTail |-> Slice(SelectSeq(analyzedKeywords, IsLongTail), 10)]
    IN  [concept |-> StringOr(args.concept, "Not specified"),
         targetAudience |-> StringOr(args.targetAudience, "general"),
         niche |-> StringOr(args.niche, "general"),
         totalAnalyzed |-> Len(analyzedKeywords),
         summary |-> [topOpportunities |-> Len(topKeywords),
                      goodOpportunities |-> Len(goodKeywords),
                      lowPriority |-> Len(lowPriorityKeywords),
                      averageOpportunityScore |-> AverageOpportunityScore(analyzedKeywords)],
         recommended |-> recommended,
         allKeywords |-> analyzedKeywords,
         insights |-> insights,
         titleKeyword |-> IF recommended.primary = << >>
                          THEN Absent ELSE Some(recommended.primary[1].keyword)]

\* the outcome of a call: a return value or a thrown error
Returned(v) == [threw |-> FALSE, message |-> "", value |-> v]
Threw(message) == [threw |-> TRUE, message |-> message, value |-> Absent]

KeywordsRequired == "Keywords array is required"
\* the TypeError of destructuring undefined
CannotDestructure == "Cannot destructure property of 'undefined'"

\* !keywords || !Array.isArray(keywords)
UsableKeywords(keywords) == keywords.type = "array"

NeedsRandom(keywordData) == ~TrendIsFixed(toLowerCase(keywordData.keyword))

\* keywords.map(kw => this.analyzeKeyword(kw, niche)) from element i on; draws
\* are the values the successive Math.random() calls return, used of them
\* already consumed
RECURSIVE MapAnalyzeFrom(_, _, _, _)
MapAnalyzeFrom(keywords, i, draws, used) ==
    IF i > Len(keywords) THEN << >>
    ELSE IF NeedsRandom(keywords[i])
    THEN <<analyzeKeyword(keywords[i], draws[used + 1])>>
         \o MapAnalyzeFrom(keywords, i + 1, draws, used + 1)
    ELSE <<analyzeKeyword(keywords[i], 0)>>
         \o MapAnalyzeFrom(keywords, i + 1, draws, used)

MapAnalyze(keywords, draws) == MapAnalyzeFrom(keywords, 1, draws, 0)

\* async analyzeKeywords({ keywords, concept, targetAudience, niche })
analyzeKeywords(args, draws) ==
    IF args = Absent THEN Threw(CannotDestructure)
    ELSE IF ~UsableKeywords(args[1].keywords) THEN Threw(KeywordsRequired)
    ELSE Returned(Report(args[1], MapAnalyze(args[1].keywords.items, draws)))

---------------------------------------------------------------------------
(* The request router *)

\* JavaScript null, where a string may stand (ids are strings here)
Null == "null"

ResultResponse(result, id) ==
    [jsonrpc |-> "2.0", result |-> Some(result), error |-> Absent, id |-> id]

\* message: the parts of the template literal, in order
ErrorResponse(code, message, id) ==
    [jsonrpc |-> "2.0", result |-> Absent,
     error |-> Some([code |-> code, message |-> message]), id |-> id]

\* the catch block of the message handler, lines 37-44
ParseErrorResponse == ErrorResponse(0 - 32700, <<"Parse error">>, Null)

\* new Date().toISOString()
Timestamp == "ISO-8601"

handlePing(id) ==
    ResultResponse([status |-> "ok", agent |-> "YT-Keyword-Analyzer",
                    version |-> "1.0.0", timestamp |-> Timestamp], id)

handleToolsList(id) ==
    ResultResponse([tools |-> <<[name |-> "analyzeKeywords",
                                 required |-> <<"keywords">>]>>], id)

\* String(name) inside the template literal
NameText(name) == IF name = Absent THEN "undefined" ELSE name[1]

\* async handleToolCall(params, id); destructuring an undefined params throws
handleToolCall(params, id, draws) ==
    IF params = Absent THEN Threw(CannotDestructure)
    ELSE LET name == params[1].name
             args == params[1].arguments
         IN  IF name # Some("analyzeKeywords")
             THEN Returned(ErrorResponse(0 - 32602,
                                         <<"Unknown tool: ", NameText(name)>>, id))
             ELSE LET call == analyzeKeywords(args, draws)
                  IN  IF call.threw
                      THEN Returned(ErrorResponse(0 - 32603, <<call.message>>, id))
                      ELSE Returned(ResultResponse([content |-> call.value], id))

\* async handleRequest(request)
handleRequest(req, draws) ==
    CASE req.method = "ping"       -> Returned(handlePing(req.id))
      [] req.method = "tools/list" -> Returned(handleToolsList(req.id))
      [] req.method = "tools/call" -> handleToolCall(req.params, req.id, draws)
      [] OTHER -> Returned(ErrorResponse(0 - 32601,
                                         <<"Method not found: ", req.method>>, req.id))

\* the message handler of lines 30-45: JSON.parse, handleRequest, and the
\* catch block for whatever either throws
MessageHandler(message, draws) ==
    IF message.kind = "text" THEN ParseErrorResponse
    ELSE LET outcome == handleRequest(message, draws)
         IN  IF outcome.threw THEN ParseErrorResponse ELSE outcome.value

\* whether the response carries an analysis report
HasReport(resp) == resp.result # Absent /\ "content" \in DOMAIN resp.result[1]

\* JSON.stringify writes NaN as null
JsonNumber(x) == IF x.nan THEN JsonNull ELSE x

\* JSON.stringify(response)
Stringify(resp) ==
    IF HasReport(resp)
    THEN [resp EXCEPT !.result[1].content.summary.averageOpportunityScore = JsonNumber(@)]
    ELSE resp

\* the keywords array the request makes analyzeKeywords map over
MappedKeywords(message) ==
    IF /\ message.kind = "json" /\ message.method = "tools/call"
       /\ message.params # Absent
       /\ message.params[1].name = Some("analyzeKeywords")
       /\ message.params[1].arguments # Absent
       /\ UsableKeywords(message.params[1].arguments[1].keywords)
    THEN message.params[1].arguments[1].keywords.items
    ELSE << >>

RandomCalls(keywords) == Cardinality({i \in 1..Len(keywords) : NeedsRandom(keywords[i])})

---------------------------------------------------------------------------
(* The inputs the model draws from *)

CompetitionWords ==
    { <<"B","e","s","t">>, <<"g","u","i","d","e">>, <<"t","i","p","s">>,
      <<"s","e","c","r","e","t">>, <<"v","l","o","g">> }

TrendWords ==
    { <<"a","i">>, <<"2","0","2","6">>, <<"c","l","a","s","s","i","c">> }

\* what stands between two words of a keyword: a space, two spaces, a tab
Separators == { <<" ">>, <<" ", " ">>, <<"\t">> }

RECURSIVE Join(_, _)
Join(ws, sep) ==
    IF Len(ws) = 1 THEN ws[1] ELSE ws[1] \o sep \o Join(Tail(ws), sep)

KeywordTexts ==
    { Join(ws, sep) : ws \in UNION {[1..n -> CompetitionWords] : n \in 1..MaxWords},
                      sep \in Separators }

Categories == {Absent, Some(""), Some("primary"), Some("long-tail")}
SearchVolumes == {Absent, Some("high"), Some("medium"), Some("low"), Some("huge")}
\* relevance in fortieths: undefined, 0, 0.025, 0.5, 0.9, 1
Relevances == {Absent, Some(0), Some(1), Some(20), Some(36), Some(40)}
\* Math.random() in tenths: 0.3 and 0.7 sit on the thresholds
RandomDraws == {3, 7, 8}

StringInput(text) ==
    [format |-> "string", keyword |-> text, category |-> Absent,
     searchVolume |-> Absent, relevance |-> Absent]

ObjectInput(text, category, searchVolume, relevance) ==
    [format |-> "object", keyword |-> text, category |-> category,
     searchVolume |-> searchVolume, relevance |-> relevance]

\* bare strings of up to MaxWords words, and objects around one word with
\* every combination of the optional fields
ScorerInputs ==
    {StringInput(t) : t \in KeywordTexts}
    \cup {ObjectInput(w, c, v, r) : w \in CompetitionWords \cup TrendWords,
                                    c \in Categories, v \in SearchVolumes,
                                    r \in Relevances}

\* the keyword inputs a tools/call draws its array from:
\*   "vlog"                       50, trend drawn at random
\*   "classic"                    50, stable
\*   "secret classic" (long-tail) 70, stable, easy with volume 60
\*   "Best guide 2026"            38, rising
BatchInputs ==
    { StringInput(<<"v","l","o","g">>),
      StringInput(<<"c","l","a","s","s","i","c">>),
      ObjectInput(<<"s","e","c","r","e","t"," ","c","l","a","s","s","i","c">>,
                  Some("long-tail"), Some("medium"), Some(36)),
      ObjectInput(<<"B","e","s","t"," ","g","u","i","d","e"," ","2","0","2","6">>,
                  Absent, Some("low"), Some(0)) }

KeywordLists == UNION {[1..n -> BatchInputs] : n \in 0..MaxBatch}

\* arguments.keywords: undefined, null, a string, a plain object, or an array
KeywordsValues ==
    {[type |-> t, items |-> << >>] : t \in {"undefined", "null", "string", "object"}}
    \cup {[type |-> "array", items |-> l] : l \in KeywordLists}

Niches == {Absent, Some(""), Some("gaming")}

Arguments(keywords, concept, targetAudience, niche) ==
    [keywords |-> keywords, concept |-> concept,
     targetAudience |-> targetAudience, niche |-> niche]

\* every combination of the optional properties with the arrays of at most
\* one keyword; the longer arrays come with and without a niche
ArgumentsSet ==
    {Arguments(k, Absent, Absent, n) :
        k \in KeywordsValues, n \in {Absent, Some("gaming")}}
    \cup {Arguments(k, c, t, n) :
            k \in {v \in KeywordsValues : Len(v.items) <= 1},
            c \in {Absent, Some("camera basics")},
            t \in {Absent, Some("beginners")},
            n \in Niches}

ToolCallParams ==
    {Absent}
    \cup {Some([name |-> Some("analyzeKeywords"), arguments |-> a]) :
            a \in {Absent} \cup {Some(x) : x \in ArgumentsSet}}
    \cup {Some([name |-> n, arguments |-> a]) :
            n \in {Absent, Some("unknownTool")},
            a \in {Absent,
                   Some(Arguments([type |-> "array", items |-> << >>],
                                  Absent, Absent, Absent))}}

Ids == {"1", "2"}

JsonRequest(method, params, id) ==
    [kind |-> "json", method |-> method, params |-> params, id |-> id]

\* a message that is not JSON
TextMessage == [kind |-> "text", method |-> "", params |-> Absent, id |-> Null]

Messages ==
    {TextMessage}
    \cup {JsonRequest(m, Absent, id) :
            m \in {"ping", "tools/list", "resources/list"}, id \in Ids}
    \cup {JsonRequest("tools/call", p, id) : p \in ToolCallParams, id \in Ids}

---------------------------------------------------------------------------
(* The server: one client that sends a message and waits for the answer *)

NoMessage == [kind |-> "none"]

Init ==
    /\ inbox = NoMessage /\ request = NoMessage /\ analyzed = << >>
    /\ response = NoMessage /\ sent = NoMessage
    /\ scoreInput = NoMessage /\ scored = Absent /\ rescored = Absent

ClientSend ==
    /\ inbox = NoMessage /\ sent = NoMessage
    /\ inbox' \in Messages
    /\ UNCHANGED <<request, analyzed, response, sent, scoreInput, scored, rescored>>

\* ws.on('message'): parse, handle, stringify, send
OnMessage ==
    /\ inbox # NoMessage
    /\ \E draws \in [1..RandomCalls(MappedKeywords(inbox)) -> RandomDraws] :
          /\ analyzed' = MapAnalyze(MappedKeywords(inbox), draws)
          /\ response' = MessageHandler(inbox, draws)
          /\ sent' = Stringify(response')
    /\ request' = inbox
    /\ inbox' = NoMessage
    /\ UNCHANGED <<scoreInput, scored, rescored>>

ClientReceive ==
    /\ sent # NoMessage
    /\ sent' = NoMessage /\ response' = NoMessage
    /\ request' = NoMessage /\ analyzed' = << >>
    /\ UNCHANGED <<inbox, scoreInput, scored, rescored>>

Next == ClientSend \/ OnMessage \/ ClientReceive

Spec == Init /\ [][Next]_vars

---------------------------------------------------------------------------
(* The scorer harness: one keywordData, scored twice *)

InitScorer ==
    /\ scoreInput \in ScorerInputs
    /\ scored = Absent /\ rescored = Absent
    /\ inbox = NoMessage /\ request = NoMessage /\ analyzed = << >>
    /\ response = NoMessage /\ sent = NoMessage

Score ==
    /\ scored = Absent
    /\ \E rand \in RandomDraws :
           scored' = Some(analyzeKeyword(scoreInput, rand))
    /\ UNCHANGED <<inbox, request, analyzed, response, sent, scoreInput, rescored>>

ScoreAgain ==
    /\ scored # Absent /\ rescored = Absent
    /\ \E rand \in RandomDraws :
           rescored' = Some(analyzeKeyword(scoreInput, rand))
    /\ UNCHANGED <<inbox, request, analyzed, response, sent, scoreInput, scored>>

NextScorer == Score \/ ScoreAgain

SpecScorer == InitScorer /\ [][NextScorer]_vars

---------------------------------------------------------------------------
(* The claims *)

\* the report of the response, when it carries one
Content == response.result[1].content

\* the tool a tools/call names: undefined when params or params.name is
ToolName(req) == IF req.params = Absent THEN Absent ELSE req.params[1].name

IsToolCall(req) == req.kind = "json" /\ req.method = "tools/call"

ErrorCode(resp) == IF resp.error = Absent THEN 0 ELSE resp.error[1].code

\* where a stable descending sort puts element k of s
StableRank(s, k) ==
    1 + Cardinality({j \in 1..Len(s) : s[j].opportunityScore > s[k].opportunityScore})
      + Cardinality({j \in 1..(k - 1) : s[j].opportunityScore = s[k].opportunityScore})

\* C1: allKeywords holds exactly the scored inputs, non-increasing by
\* opportunityScore, items of equal score in the order of the input array: the
\* item scored from input k stands after every item of a greater score and
\* after the equal-score items of the inputs before k, and nowhere else.
C1_StableSort ==
    (response # NoMessage /\ HasReport(response)) =>
        LET all == Content.allKeywords
        IN  /\ Len(all) = Len(analyzed)
            /\ \A i \in 1..(Len(all) - 1) :
                   all[i].opportunityScore >= all[i + 1].opportunityScore
            /\ \A k \in 1..Len(analyzed) : all[StableRank(analyzed, k)] = analyzed[k]

\* C1 witness: a report whose input held two different items of equal score
\* and an item in front of one of a greater score.
C1_Witness ==
    /\ response # NoMessage /\ HasReport(response)
    /\ \E i, j \in 1..Len(analyzed) :
          /\ i < j /\ analyzed[i] # analyzed[j]
          /\ analyzed[i].opportunityScore = analyzed[j].opportunityScore
    /\ \E i, j \in 1..Len(analyzed) :
          i < j /\ analyzed[i].opportunityScore < analyzed[j].opportunityScore

\* C2: a tools/call that names any tool but analyzeKeywords is answered with
\* error -32602 under the request's own id.
C2_UnknownTool ==
    (response # NoMessage /\ IsToolCall(request)
     /\ ToolName(request) # Some("analyzeKeywords")) =>
        /\ ErrorCode(response) = 0 - 32602
        /\ response.id = request.id

\* the call reaches analyzeKeywords without a usable keyword list
NoUsableKeywords(req) ==
    /\ IsToolCall(req)
    /\ ToolName(req) = Some("analyzeKeywords")
    /\ \/ req.params[1].arguments = Absent
       \/ ~UsableKeywords(req.params[1].arguments[1].keywords)

\* C3: analyzeKeywords called without a usable keyword list is answered with
\* error -32603, message "Keywords array is required", the request's id.
C3_KeywordsRequired ==
    (response # NoMessage /\ NoUsableKeywords(request)) =>
        /\ response.error = Some([code |-> 0 - 32603, message |-> <<KeywordsRequired>>])
        /\ response.id = request.id
        /\ sent # NoMessage

\* the relevance the claim prescribes, in fortieths: the supplied value, 0.5
\* only when none is supplied
SuppliedRelevance(keywordData) ==
    IF InputData(keywordData).relevance = Absent THEN 20
    ELSE InputData(keywordData).relevance[1]

\* C4: opportunityScore is round(volumeScore * 0.4 + (100 - competitionScore)
\* * 0.4 + relevance * 20), with the supplied relevance, 0.5 only when absent;
\* the same relevance is echoed in the output.
C4_OpportunityFormula ==
    scored # Absent =>
        LET r   == scored[1]
            rel == SuppliedRelevance(scoreInput)
        IN  /\ r.relevance = rel
            /\ r.opportunityScore =
                   (16 * r.analysis.volumeScore
                    + 16 * (100 - r.analysis.competitionScore)
                    + 20 * rel + 20) \div 40

\* C5: an empty keywords array is answered with a report whose
\* averageOpportunityScore is 0 or null.
C5_EmptyBatchAverage ==
    (response # NoMessage /\ NoMessage # request /\ IsToolCall(request)
     /\ ToolName(request) = Some("analyzeKeywords")
     /\ request.params[1].arguments # Absent
     /\ request.params[1].arguments[1].keywords = [type |-> "array", items |-> << >>]) =>
        /\ HasReport(response)
        /\ Content.summary.averageOpportunityScore \in {Num(0), JsonNull}

\* how many items of s have an opportunityScore in lo..hi
CountBetween(s, lo, hi) ==
    Cardinality({i \in 1..Len(s) : lo <= s[i].opportunityScore /\ s[i].opportunityScore <= hi})

\* C6: the summary counts are the sizes of the tiers >= 70, [50, 70) and < 50
\* of allKeywords; every keyword is in exactly one of them, so the counts add
\* up to totalAnalyzed, the length of the keywords array.
C6_TierPartition ==
    (response # NoMessage /\ HasReport(response)) =>
        LET all == Content.allKeywords
            sum == Content.summary
        IN  /\ \A i \in 1..Len(all) : all[i].opportunityScore \in 0..100
            /\ sum.topOpportunities = CountBetween(all, 70, 100)
            /\ sum.goodOpportunities = CountBetween(all, 50, 69)
            /\ sum.lowPriority = CountBetween(all, 0, 49)
            /\ sum.topOpportunities + sum.goodOpportunities + sum.lowPriority
                   = Content.totalAnalyzed
            /\ Content.totalAnalyzed = Len(request.params[1].arguments[1].keywords.items)

\* C6 witness: a report with all three tiers inhabited and items on both
\* boundaries, 70 and 50.
C6_Witness ==
    /\ response # NoMessage /\ HasReport(response)
    /\ Content.summary.topOpportunities > 0
    /\ Content.summary.goodOpportunities > 0
    /\ Content.summary.lowPriority > 0
    /\ \E i \in 1..Len(Content.allKeywords) : Content.allKeywords[i].opportunityScore = 70
    /\ \E i \in 1..Len(Content.allKeywords) : Content.allKeywords[i].opportunityScore = 50

\* C7: every competitionScore analyzeKeyword produces lies in [10, 95].
C7_CompetitionClamped ==
    \A r \in {scored, rescored} :
        r # Absent => (10 <= r[1].analysis.competitionScore
                       /\ r[1].analysis.competitionScore <= 95)

AnyIncluded(keyword, patterns) ==
    \E i \in 1..Len(patterns) : includes(keyword, patterns[i])

\* C7 witness: a keyword of four words that matches all three buckets, and is
\* scored 50 + 15 + 5 - 20 - 15.
C7_Witness ==
    /\ scored # Absent
    /\ AnyIncluded(toLowerCase(scoreInput.keyword), highCompetition)
    /\ AnyIncluded(toLowerCase(scoreInput.keyword), mediumCompetition)
    /\ AnyIncluded(toLowerCase(scoreInput.keyword), lowCompetition)
    /\ SplitSpaceLength(scoreInput.keyword) >= 4
    /\ scored[1].analysis.competitionScore = 35

\* the keyword, lower-cased, matches a trending topic, a year 2024-2029,
\* "classic" or "traditional"
MatchesTrendTerm(keyword) ==
    \/ AnyIncluded(toLowerCase(keyword), trendingTopics)
    \/ \E y \in {"4", "5", "6", "7", "8", "9"} :
           includes(toLowerCase(keyword), <<"2", "0", "2", y>>)
    \/ includes(toLowerCase(keyword), classic)
    \/ includes(toLowerCase(keyword), traditional)

\* C8: two scorings of the same input agree on competitionScore, volumeScore,
\* opportunityScore, difficulty and recommendation; their trendDirection
\* differs only for a keyword that matches no trend term.
C8_DrawIndependence ==
    (scored # Absent /\ rescored # Absent) =>
        LET a == scored[1]
            b == rescored[1]
        IN  /\ a.analysis.competitionScore = b.analysis.competitionScore
            /\ a.analysis.volumeScore = b.analysis.volumeScore
            /\ a.opportunityScore = b.opportunityScore
            /\ a.analysis.difficulty = b.analysis.difficulty
            /\ a.recommendation = b.recommendation
            /\ (a.analysis.trendDirection # b.analysis.trendDirection
                    => ~MatchesTrendTerm(scoreInput.keyword))

\* C8 witness: the same input scored twice, rising once and declining once.
C8_Witness ==
    /\ scored # Absent /\ rescored # Absent
    /\ scored[1].analysis.trendDirection = "rising"
    /\ rescored[1].analysis.trendDirection = "declining"

\* the niche the request supplies
RequestNiche == request.params[1].arguments[1].niche

InsightDue(type) ==
    LET all == Content.allKeywords
    IN  CASE type = "gap" -> \A i \in 1..Len(all) : all[i].category # "long-tail"
          [] type = "opportunity" ->
                 \E i \in 1..Len(all) : all[i].analysis.trendDirection = "rising"
          [] type = "quick-win" ->
                 \E i \in 1..Len(all) : /\ all[i].analysis.difficulty = "easy"
                                        /\ all[i].analysis.volumeScore >= 40
          [] type = "niche" -> RequestNiche # Absent /\ RequestNiche # <<"">>

WantsExample(type, k) ==
    IF type = "opportunity" THEN k.analysis.trendDirection = "rising"
    ELSE k.analysis.difficulty = "easy" /\ k.analysis.volumeScore >= 40

\* the keywords of the first three items of allKeywords an insight of this
\* type is about
FirstThree(type) ==
    LET all  == Content.allKeywords
        hits == {i \in 1..Len(all) : WantsExample(type, all[i])}
        nth(n) == CHOOSE i \in hits : Cardinality({j \in hits : j < i}) = n - 1
    IN  [n \in 1..Min(3, Cardinality(hits)) |-> all[nth(n)].keyword]

\* C9: the insights are, in the order gap, opportunity, quick-win, niche,
\* exactly the items whose condition holds, each once; the niche item names
\* the supplied niche; an opportunity or quick-win item lists the first three
\* matching keywords of the sorted list.
C9_Insights ==
    (response # NoMessage /\ HasReport(response)) =>
        LET ins == Content.insights
        IN  /\ [i \in 1..Len(ins) |-> ins[i].type]
                   = SelectSeq(<<"gap", "opportunity", "quick-win", "niche">>, InsightDue)
            /\ \A i \in 1..Len(ins) :
                   /\ ins[i].type = "niche" => ins[i].niche = RequestNiche
                   /\ ins[i].type \in {"opportunity", "quick-win"} =>
                          /\ Len(ins[i].keywords[1]) <= 3
                          /\ ins[i].keywords[1] = FirstThree(ins[i].type)

\* C9 witness: a niche is supplied, no keyword is long-tail, four keywords
\* are rising, and the three listed are not the last three of them.
C9_Witness ==
    /\ response # NoMessage /\ HasReport(response)
    /\ RequestNiche = Some("gaming")
    /\ [i \in 1..Len(Content.insights) |-> Content.insights[i].type]
           = <<"gap", "opportunity", "niche">>
    /\ Content.insights[2].count = Some(4)
    /\ Content.insights[2].keywords[1]
           # KeywordsOf(SubSeq(Content.allKeywords, 2, 4))

IsWhitespace(c) == c \in {" ", "\t"}

\* the number of whitespace-delimited tokens of s
WhitespaceTokens(s) ==
    Cardinality({i \in 1..Len(s) :
                    ~IsWhitespace(s[i]) /\ (i = 1 \/ IsWhitespace(s[i - 1]))})

\* C10: competitionScore is the clamp to [10, 95] of 50, +15 for any
\* high-competition term, +5 for any medium one, -20 for any low one, and -15
\* for four or more whitespace-delimited tokens.
C10_CompetitionFormula ==
    scored # Absent =>
        LET keyword == toLowerCase(scoreInput.keyword)
            raw == 50
                   + (IF AnyIncluded(keyword, highCompetition) THEN 15 ELSE 0)
                   + (IF AnyIncluded(keyword, mediumCompetition) THEN 5 ELSE 0)
                   - (IF AnyIncluded(keyword, lowCompetition) THEN 20 ELSE 0)
                   - (IF WhitespaceTokens(keyword) >= 4 THEN 15 ELSE 0)
        IN  scored[1].analysis.competitionScore
                = (IF raw < 10 THEN 10 ELSE IF raw > 95 THEN 95 ELSE raw)

=============================================================================
